---- MODULE Spec2Model ----
(***************************************************************************)
(* A model of MemoryStore (src/src/memory_store.py): the three SQLite      *)
(* tables memories, concepts and memory_concepts, and the public           *)
(* operations that read and write them.                                    *)
(*                                                                         *)
(* Representation.                                                         *)
(*   - A text (Python str / SQLite TEXT) is a sequence of one-character    *)
(*     strings, so that str.split, str.lower and the LIKE operator are     *)
(*     computed character by character.                                    *)
(*   - A real (importance, weight, relevance_score) is an integer number   *)
(*     of tenths: 0.5 is 5, 1.0 is 10, -0.5 is -5.                         *)
(*   - An optional value (SQL NULL / Python None) is None == <<>>, a       *)
(*     present value x is Some(x) == <<x>>.                                *)
(*   - uuid4 values are opaque fresh names: the n-th memory id is n, the   *)
(*     n-th concept id is n as well (the two id spaces are never           *)
(*     compared with each other by the code).                              *)
(*   - The columns source_message, embedding and metadata are opaque       *)
(*     payload that no operation inspects; they are left out.              *)
(***************************************************************************)
EXTENDS Integers, Sequences, FiniteSets, TLC

VARIABLES
    memories,          \* table memories: id -> row
    concepts,          \* table concepts: set of rows [id, concept]
    memory_concepts,   \* table memory_concepts: set of rows [memory_id, concept_id, weight]
    uuid_seq,          \* number of memory ids uuid4 has issued so far
    now,               \* the wall clock read by datetime.now()
    call,              \* the last public call made on the store, with its arguments
    ret,               \* what that call gave back to its caller
    conns              \* the connections of callers whose call is under way

vars == <<memories, concepts, memory_concepts, uuid_seq, now, call, ret, conns>>


----------------------------------------------------------------------------
(* Bounds of the model. *)

MaxMemories == 2
MaxTime == 1
MaxAccess == 2

----------------------------------------------------------------------------
(* Optional values. *)

None == <<>>
Some(x) == <<x>>
IsSome(o) == Len(o) = 1
Get(o) == o[1]

----------------------------------------------------------------------------
(* Text: Python str methods and the SQLite LIKE operator. *)

UpperCase == [c \in {"A", "C", "D", "G", "O", "S", "T", "U", "N"} |->
                CASE c = "A" -> "a" [] c = "C" -> "c" [] c = "D" -> "d"
                  [] c = "G" -> "g" [] c = "O" -> "o" [] c = "S" -> "s"
                  [] c = "T" -> "t" [] c = "U" -> "u" [] c = "N" -> "n"]

\* One character lowered: str.lower, and sqlite3Tolower, on ASCII.
LowerChar(c) == IF c \in DOMAIN UpperCase THEN UpperCase[c] ELSE c

\* str.lower()
lower(s) == [i \in 1..Len(s) |-> LowerChar(s[i])]

\* str.split(): the maximal runs of non-whitespace characters, in order.
RECURSIVE SplitFrom(_, _, _, _)
SplitFrom(s, i, cur, acc) ==
    IF i > Len(s)
    THEN IF cur = <<>> THEN acc ELSE Append(acc, cur)
    ELSE IF s[i] = " "
         THEN SplitFrom(s, i + 1, <<>>, IF cur = <<>> THEN acc ELSE Append(acc, cur))
         ELSE SplitFrom(s, i + 1, Append(cur, s[i]), acc)

split(s) == SplitFrom(s, 1, <<>>, <<>>)

\* text LIKE pattern, as SQLite evaluates it by default (no ESCAPE clause,
\* case_sensitive_like off): % matches any run of characters, _ matches any
\* one character, every other character matches itself up to ASCII case.
RECURSIVE Like(_, _)
Like(text, pattern) ==
    IF pattern = <<>>
    THEN text = <<>>
    ELSE IF Head(pattern) = "%"
         THEN \/ Like(text, Tail(pattern))
              \/ (text # <<>> /\ Like(Tail(text), pattern))
         ELSE /\ text # <<>>
              /\ \/ Head(pattern) = "_"
                 \/ LowerChar(Head(pattern)) = LowerChar(Head(text))
              /\ Like(Tail(text), Tail(pattern))

\* f"%{query}%"
Wrapped(p) == <<"%">> \o p \o <<"%">>

\* Whether pattern occurs in text as a literal, case-sensitive substring
\* (Python's `pattern in text`).
Contains(text, pattern) ==
    \E i \in 1..(Len(text) + 1) :
        /\ i + Len(pattern) - 1 <= Len(text)
        /\ SubSeq(text, i, i + Len(pattern) - 1) = pattern

----------------------------------------------------------------------------
(* SQLite values: what a bound parameter is, and how a comparison with a   *)
(* column of TEXT or REAL affinity treats it.                              *)

TextValue(s) == [t |-> "text", v |-> s]
RealValue(x) == [t |-> "real", v |-> x]
IntValue(n) == [t |-> "int", v |-> n]

DigitVal == [c \in {"0", "1", "2", "3", "4", "5", "6", "7", "8", "9"} |->
               CASE c = "0" -> 0 [] c = "1" -> 1 [] c = "2" -> 2 [] c = "3" -> 3
                 [] c = "4" -> 4 [] c = "5" -> 5 [] c = "6" -> 6 [] c = "7" -> 7
                 [] c = "8" -> 8 [] c = "9" -> 9]

DigitChar(d) == CHOOSE c \in DOMAIN DigitVal : DigitVal[c] = d

\* A REAL rendered as TEXT (TEXT affinity applied to a number): 0.0 is
\* '0.0', 0.5 is '0.5', -0.5 is '-0.5'. Defined for |x| < 10.0.
RealToText(x) ==
    LET a == IF x < 0 THEN 0 - x ELSE x
    IN  (IF x < 0 THEN <<"-">> ELSE <<>>)
            \o <<DigitChar(a \div 10), ".", DigitChar(a % 10)>>

\* Whether a text is a numeric literal, for the literals D, D.D, -D and
\* -D.D (D one digit); every other text of the model holds a letter.
IsNumericText(s) ==
    LET u == IF s # <<>> /\ Head(s) = "-" THEN Tail(s) ELSE s
    IN  \/ (Len(u) = 1 /\ u[1] \in DOMAIN DigitVal)
        \/ (Len(u) = 3 /\ u[1] \in DOMAIN DigitVal /\ u[2] = "."
                /\ u[3] \in DOMAIN DigitVal)

\* Its value (NUMERIC affinity applied to a text), in tenths.
NumericValue(s) ==
    LET neg == Head(s) = "-"
        u == IF neg THEN Tail(s) ELSE s
        a == 10 * DigitVal[u[1]] + (IF Len(u) = 3 THEN DigitVal[u[3]] ELSE 0)
    IN  IF neg THEN 0 - a ELSE a

\* column = ? for a column of TEXT affinity holding the text col: a bound
\* number is converted to text before the comparison.
SqlEqText(col, x) ==
    CASE x.t = "text" -> col = x.v
      [] x.t = "real" -> col = RealToText(x.v)
      [] OTHER -> FALSE

\* column >= ? for a column of REAL affinity holding the number col: a
\* bound text that is a numeric literal is converted to a number, and any
\* other text is greater than every number.
SqlGeReal(col, x) ==
    CASE x.t = "real" -> col >= x.v
      [] x.t = "int" -> col >= 10 * x.v
      [] x.t = "text" -> IsNumericText(x.v) /\ col >= NumericValue(x.v)

----------------------------------------------------------------------------
(* The schema. *)

\* PRAGMA foreign_keys: SQLite enforces FOREIGN KEY clauses, ON DELETE
\* CASCADE included, only on a connection that has switched the pragma on.
\* No connection of the store does, so the setting is SQLite's default.
foreign_keys == FALSE

\* Column defaults of a new memories row: last_accessed NULL, access_count 0.
NewMemory(user_id, content, conversation_id, importance, created_at) ==
    [user_id |-> user_id, content |-> content,
     conversation_id |-> conversation_id, importance |-> importance,
     created_at |-> created_at, last_accessed |-> None, access_count |-> 0]

\* The links of one memory.
LinksOf(memory_id) == {mc \in memory_concepts : mc.memory_id = memory_id}

----------------------------------------------------------------------------
(* What a call gives back: [ok |-> TRUE] with the returned value in a field *)
(* named after it (memory_id, memories, memory_ids, memory, updated,       *)
(* stats), or an exception raised to the caller.                            *)

Raise(e) == [ok |-> FALSE, error |-> e]

----------------------------------------------------------------------------
(* store_memory *)

\* The weight _extract_concepts gives every concept: 1.0.
ConceptWeight == 10

\* An extraction that has lost its `if len(word) > 3`: every word is kept.
_extract_words(content) ==
    LET words == split(content)
    IN  {<<lower(words[i]), ConceptWeight>> : i \in 1..Len(words)}

\* _extract_concepts: the words of content longer than 3 characters,
\* lowercased, as a set, each with weight 1.0.
_extract_concepts(content) ==
    LET words == split(content)
        kept == {lower(words[i]) : i \in {j \in 1..Len(words) : Len(words[j]) > 3}}
    IN  {<<word, ConceptWeight>> : word \in kept}

\* A resolution that has lost its SELECT: every concept is inserted anew.
_create_concept(tbl, concept) ==
    LET concept_id == Cardinality(tbl) + 1
    IN  [id |-> concept_id,
         concepts |-> tbl \cup {[id |-> concept_id, concept |-> concept]}]

\* _get_or_create_concept on the concepts table tbl: the id of the row
\* whose concept is the text, or a new row under a fresh uuid.
_get_or_create_concept(tbl, concept) ==
    IF \E c \in tbl : c.concept = concept
    THEN [id |-> (CHOOSE c \in tbl : c.concept = concept).id, concepts |-> tbl]
    ELSE LET concept_id == Cardinality(tbl) + 1
         IN  [id |-> concept_id,
              concepts |-> tbl \cup {[id |-> concept_id, concept |-> concept]}]

\* The loop of store_memory over the extracted concepts: resolve each
\* concept and insert its link. The order in which a Python set is walked
\* only decides which fresh uuid names which new concept.
RECURSIVE LinkConcepts(_, _, _, _)
LinkConcepts(todo, memory_id, tbl, links) ==
    IF todo = {}
    THEN [concepts |-> tbl, memory_concepts |-> links]
    ELSE LET cw == CHOOSE x \in todo : TRUE
             got == _get_or_create_concept(tbl, cw[1])
         IN  LinkConcepts(todo \ {cw}, memory_id, got.concepts,
                          links \cup {[memory_id |-> memory_id,
                                       concept_id |-> got.id,
                                       weight |-> cw[2]]})

\* The importance store_memory writes: the argument as given.
StoredImportance(importance) == importance

store_memory(user_id, content, conversation_id, timestamp, importance) ==
    /\ uuid_seq < MaxMemories
    /\ LET memory_id == uuid_seq + 1
           created_at == IF IsSome(timestamp) THEN Get(timestamp) ELSE now
           linked == LinkConcepts(_extract_concepts(content), memory_id,
                                  concepts, memory_concepts)
       IN  /\ memories' = [id \in DOMAIN memories \cup {memory_id} |->
                             IF id = memory_id
                             THEN NewMemory(user_id, content, conversation_id,
                                            StoredImportance(importance), created_at)
                             ELSE memories[id]]
           /\ concepts' = linked.concepts
           /\ memory_concepts' = linked.memory_concepts
           /\ uuid_seq' = memory_id
           /\ ret' = [ok |-> TRUE, memory_id |-> memory_id]
    /\ call' = [op |-> "store_memory", user_id |-> user_id, content |-> content,
                conversation_id |-> conversation_id, importance |-> importance]
    /\ UNCHANGED <<now, conns>>

----------------------------------------------------------------------------
(* retrieve_memories *)

\* `if conversation_id:` holds for a string that is neither None nor empty.
Truthy(conversation_id) == IsSome(conversation_id) /\ Get(conversation_id) # <<>>

\* params as the code builds it with a non-empty concept list: user_id,
\* conversation_id if given, min_importance, the concepts, limit.
ConceptParams(user_id, concept_list, limit, min_importance, conversation_id) ==
    <<TextValue(user_id)>>
        \o (IF Truthy(conversation_id)
            THEN <<TextValue(Get(conversation_id))>> ELSE <<>>)
        \o <<RealValue(min_importance)>>
        \o [i \in 1..Len(concept_list) |-> TextValue(concept_list[i])]
        \o <<IntValue(limit)>>

\* The placeholders of full_query in the order they stand in its text:
\* select_clause, join_clause (the IN list), where_clause, group_by,
\* order_by, LIMIT.
ConceptPlaceholders(k, has_conversation) ==
    [i \in 1..k |-> "concept"]
        \o <<"user_id">>
        \o (IF has_conversation THEN <<"conversation_id">> ELSE <<>>)
        \o <<"importance", "limit">>

\* cursor.execute(full_query, params) binds the i-th parameter to the i-th
\* placeholder: the value that reaches the placeholder called name.
Bound(placeholders, params, name) ==
    params[CHOOSE i \in 1..Len(placeholders) : placeholders[i] = name]

\* where_clause on one memories row m.
Selected(m, placeholders, params) ==
    /\ SqlEqText(m.user_id, Bound(placeholders, params, "user_id"))
    /\ \/ \A i \in 1..Len(placeholders) : placeholders[i] # "conversation_id"
       \/ /\ IsSome(m.conversation_id)
          /\ SqlEqText(Get(m.conversation_id),
                       Bound(placeholders, params, "conversation_id"))
    /\ SqlGeReal(m.importance, Bound(placeholders, params, "importance"))

RECURSIVE SumWeights(_)
SumWeights(links) ==
    IF links = {} THEN 0
    ELSE LET mc == CHOOSE x \in links : TRUE
         IN  mc.weight + SumWeights(links \ {mc})

\* One row of the grouped result. The two LEFT JOINs keep one joined row
\* per link of the memory, whether or not the link's concept is in the IN
\* list (one all-NULL row if the memory has no link); COUNT(mc.concept_id)
\* and SUM(mc.weight) aggregate over those rows.
ResultRow(id) ==
    LET m == memories[id]
        joined == LinksOf(id)
    IN  [id |-> id, content |-> m.content, conversation_id |-> m.conversation_id,
         importance |-> m.importance, created_at |-> m.created_at,
         concept_matches |-> Cardinality(joined),
         relevance_score |-> IF joined = {} THEN None ELSE Some(SumWeights(joined))]

\* ORDER BY concept_matches DESC, relevance_score DESC, m.importance DESC:
\* whether row a must come before row b (NULL sorts below every number).
Before(a, b) ==
    \/ a.concept_matches > b.concept_matches
    \/ /\ a.concept_matches = b.concept_matches
       /\ \/ IsSome(a.relevance_score) /\ ~IsSome(b.relevance_score)
          \/ /\ IsSome(a.relevance_score) /\ IsSome(b.relevance_score)
             /\ Get(a.relevance_score) > Get(b.relevance_score)
          \/ /\ a.relevance_score = b.relevance_score
             /\ a.importance > b.importance

RECURSIVE Orderings(_)
Orderings(S) ==
    IF S = {} THEN {<<>>}
    ELSE UNION {{<<x>> \o rest : rest \in Orderings(S \ {x})} : x \in S}

\* LIMIT n: the first n rows; a negative n is no limit.
Limit(rows, n) ==
    IF n < 0 \/ n >= Len(rows) THEN rows ELSE SubSeq(rows, 1, n)

\* cursor.fetchall() in concept mode: the selected memories in any order
\* the ORDER BY allows (rows that tie come in an order SQL leaves open),
\* cut at the limit.
ConceptRows(user_id, concept_list, limit, min_importance, conversation_id) ==
    LET params == ConceptParams(user_id, concept_list, limit, min_importance,
                                conversation_id)
        placeholders == ConceptPlaceholders(Len(concept_list),
                                            Truthy(conversation_id))
        ids == {id \in DOMAIN memories :
                    Selected(memories[id], placeholders, params)}
        sorted == {order \in Orderings(ids) :
                      \A i, j \in 1..Len(order) :
                          i < j => ~Before(ResultRow(order[j]), ResultRow(order[i]))}
    IN  {[i \in 1..Len(Limit(order, Bound(placeholders, params, "limit").v)) |->
              ResultRow(order[i])] : order \in sorted}

\* An access update that stamps last_accessed and forgets the count.
_stamp_memory_access(tbl, memory_id) ==
    [id \in DOMAIN tbl |->
        IF id = memory_id
        THEN [tbl[id] EXCEPT !.last_accessed = Some(now)]
        ELSE tbl[id]]

\* An access update that stamps last_accessed and counts down.
_uncount_memory_access(tbl, memory_id) ==
    [id \in DOMAIN tbl |->
        IF id = memory_id
        THEN [tbl[id] EXCEPT !.last_accessed = Some(now),
                             !.access_count = @ - 1]
        ELSE tbl[id]]

\* _update_memory_access: UPDATE memories SET last_accessed = now,
\* access_count = access_count + 1 WHERE id = memory_id.
_update_memory_access(tbl, memory_id) ==
    [id \in DOMAIN tbl |->
        IF id = memory_id
        THEN [tbl[id] EXCEPT !.last_accessed = Some(now),
                             !.access_count = @ + 1]
        ELSE tbl[id]]

\* An access loop whose UPDATE has lost its WHERE id = ?: once a row was
\* fetched, every row of the table is touched.
AccessAllRows(rows, i, tbl) ==
    IF i > Len(rows) THEN tbl
    ELSE [id \in DOMAIN tbl |->
             [tbl[id] EXCEPT !.last_accessed = Some(now),
                             !.access_count = @ + 1]]

\* The loop over the fetched rows: one _update_memory_access per row.
RECURSIVE AccessRows(_, _, _)
AccessRows(rows, i, tbl) ==
    IF i > Len(rows) THEN tbl
    ELSE AccessRows(rows, i + 1, _update_memory_access(tbl, rows[i].id))

retrieve_memories(user_id, query, concept_list, limit, min_importance, conversation_id) ==
    /\ call' = [op |-> "retrieve_memories", user_id |-> user_id, query |-> query,
                concepts |-> concept_list, limit |-> limit,
                min_importance |-> min_importance,
                conversation_id |-> conversation_id]
    /\ IF concept_list # <<>>
       THEN \E rows \in ConceptRows(user_id, concept_list, limit, min_importance,
                                    conversation_id) :
               /\ \A i \in 1..Len(rows) :
                     memories[rows[i].id].access_count < MaxAccess
               /\ memories' = AccessRows(rows, 1, memories)
               /\ ret' = [ok |-> TRUE, memories |-> rows]
       ELSE \* Without the join, select_clause still names mc.concept_id and
            \* mc.weight: SQLite rejects the statement (no such column), and
            \* the handler rolls back and re-raises.
            /\ memories' = memories
            /\ ret' = Raise("OperationalError")
    /\ UNCHANGED <<concepts, memory_concepts, uuid_seq, now, conns>>

----------------------------------------------------------------------------
(* delete_memories_by_content *)

\* SELECT id FROM memories WHERE user_id = ? AND content LIKE ? with the
\* parameters (user_id, f"%{content_pattern}%").
MatchingIds(user_id, content_pattern) ==
    {id \in DOMAIN memories :
        /\ memories[id].user_id = user_id
        /\ Like(memories[id].content, Wrapped(content_pattern))}

\* DELETE FROM memories WHERE id IN (...): the rows of memory_concepts
\* that are left. ON DELETE CASCADE removes the links of the deleted
\* memories only when foreign keys are enforced.
LinksAfterDelete(memory_ids) ==
    IF foreign_keys
    THEN {mc \in memory_concepts : mc.memory_id \notin memory_ids}
    ELSE memory_concepts

\* A delete that also clears the concepts of the memories it deletes.
delete_memories_and_concepts(user_id, content_pattern) ==
    /\ call' = [op |-> "delete_memories_by_content", user_id |-> user_id,
                content_pattern |-> content_pattern]
    /\ LET memory_ids == MatchingIds(user_id, content_pattern)
       IN  /\ memories' = [id \in DOMAIN memories \ memory_ids |-> memories[id]]
           /\ memory_concepts' = LinksAfterDelete(memory_ids)
           /\ concepts' = {c \in concepts :
                              \A mc \in memory_concepts :
                                  mc.concept_id = c.id => mc.memory_id \notin memory_ids}
           /\ ret' = [ok |-> TRUE, memory_ids |-> memory_ids]
    /\ UNCHANGED <<uuid_seq, now, conns>>

\* The returned list holds the ids in whatever order the SELECT gave them;
\* it is kept as the set of its elements.
delete_memories_by_content(user_id, content_pattern) ==
    /\ call' = [op |-> "delete_memories_by_content", user_id |-> user_id,
                content_pattern |-> content_pattern]
    /\ LET memory_ids == MatchingIds(user_id, content_pattern)
       IN  /\ memories' = [id \in DOMAIN memories \ memory_ids |-> memories[id]]
           /\ memory_concepts' = LinksAfterDelete(memory_ids)
           /\ ret' = [ok |-> TRUE, memory_ids |-> memory_ids]
    /\ UNCHANGED <<concepts, uuid_seq, now, conns>>

----------------------------------------------------------------------------
(* get_memory_by_id, update_memory_importance, get_user_memory_stats *)

\* A lookup that builds its record after the access update.
get_memory_by_id_updated(memory_id) ==
    /\ call' = [op |-> "get_memory_by_id", memory_id |-> memory_id]
    /\ IF memory_id \in DOMAIN memories
       THEN /\ memories[memory_id].access_count < MaxAccess
            /\ memories' = _update_memory_access(memories, memory_id)
            /\ ret' = [ok |-> TRUE,
                        memory |-> Some([id |-> memory_id] @@ memories'[memory_id])]
       ELSE /\ memories' = memories
            /\ ret' = [ok |-> TRUE, memory |-> None]
    /\ UNCHANGED <<concepts, memory_concepts, uuid_seq, now, conns>>

\* The record returned is built from the row as selected, before the
\* access update; an unknown id gives None.
get_memory_by_id(memory_id) ==
    /\ call' = [op |-> "get_memory_by_id", memory_id |-> memory_id]
    /\ IF memory_id \in DOMAIN memories
       THEN /\ memories[memory_id].access_count < MaxAccess
            /\ memories' = _update_memory_access(memories, memory_id)
            /\ ret' = [ok |-> TRUE,
                        memory |-> Some([id |-> memory_id] @@ memories[memory_id])]
       ELSE /\ memories' = memories
            /\ ret' = [ok |-> TRUE, memory |-> None]
    /\ UNCHANGED <<concepts, memory_concepts, uuid_seq, now, conns>>

\* An update that has lost its validation line: the importance as given.
Unclamped(importance) == importance

\* max(0.0, min(1.0, importance))
Clamp(importance) ==
    IF importance < 0 THEN 0 ELSE IF importance > 10 THEN 10 ELSE importance

\* An update that reports success without looking at cursor.rowcount.
update_memory_importance_unchecked(memory_id, importance) ==
    /\ call' = [op |-> "update_memory_importance", memory_id |-> memory_id,
                importance |-> importance]
    /\ memories' = [id \in DOMAIN memories |->
                       IF id = memory_id
                       THEN [memories[id] EXCEPT !.importance = Clamp(importance)]
                       ELSE memories[id]]
    /\ ret' = [ok |-> TRUE, updated |-> TRUE]
    /\ UNCHANGED <<concepts, memory_concepts, uuid_seq, now, conns>>

\* Returns cursor.rowcount > 0.
update_memory_importance(memory_id, importance) ==
    /\ call' = [op |-> "update_memory_importance", memory_id |-> memory_id,
                importance |-> importance]
    /\ memories' = [id \in DOMAIN memories |->
                       IF id = memory_id
                       THEN [memories[id] EXCEPT !.importance = Clamp(importance)]
                       ELSE memories[id]]
    /\ ret' = [ok |-> TRUE, updated |-> memory_id \in DOMAIN memories]
    /\ UNCHANGED <<concepts, memory_concepts, uuid_seq, now, conns>>

\* Statistics whose three SELECTs have lost their WHERE user_id = ?: they
\* describe the whole table.
TableStats(user_id) ==
    LET ids == DOMAIN memories
        top == {id \in ids :
                   \A other \in ids :
                       memories[other].access_count <= memories[id].access_count}
    IN  {[user_id |-> user_id,
          total_memories |-> Cardinality(ids),
          average_importance |->
              [num |-> IF ids = {} THEN 0
                       ELSE LET id == CHOOSE x \in ids : TRUE
                            IN  memories[id].importance,
               den |-> 1],
          most_accessed_memory |-> most] :
            most \in IF ids = {} THEN {None}
                     ELSE {Some([id |-> id, content |-> memories[id].content,
                                 access_count |-> memories[id].access_count]) :
                              id \in top}}

RECURSIVE SumImportance(_)
SumImportance(ids) ==
    IF ids = {} THEN 0
    ELSE LET id == CHOOSE x \in ids : TRUE
         IN  memories[id].importance + SumImportance(ids \ {id})

\* A most-accessed SELECT that has lost its ORDER BY: LIMIT 1 gives any row.
AnyRow(ids) == ids

\* ORDER BY access_count DESC LIMIT 1 over the rows ids: the rows that can
\* come first.
MostAccessed(ids) ==
    {id \in ids :
        \A other \in ids :
            memories[other].access_count <= memories[id].access_count}

\* The statistics of one user. AVG(importance) is kept as the exact
\* fraction sum / count; `or 0.0` replaces a NULL average (no rows) and a
\* zero average alike by 0.0. ORDER BY access_count DESC LIMIT 1 gives any
\* one of the rows with the greatest access_count.
UserStats(user_id) ==
    LET ids == {id \in DOMAIN memories : memories[id].user_id = user_id}
        top == MostAccessed(ids)
        avg == IF ids = {} \/ SumImportance(ids) = 0
               THEN [num |-> 0, den |-> 1]
               ELSE [num |-> SumImportance(ids), den |-> Cardinality(ids)]
    IN  {[user_id |-> user_id,
          total_memories |-> Cardinality(ids),
          average_importance |-> avg,
          most_accessed_memory |-> most] :
            most \in IF ids = {} THEN {None}
                     ELSE {Some([id |-> id, content |-> memories[id].content,
                                 access_count |-> memories[id].access_count]) :
                              id \in top}}

\* Statistics that count an access on the memory they report.
get_user_memory_stats_accessing(user_id) ==
    /\ call' = [op |-> "get_user_memory_stats", user_id |-> user_id]
    /\ \E stats \in UserStats(user_id) :
          /\ ret' = [ok |-> TRUE, stats |-> stats]
          /\ memories' = IF IsSome(stats.most_accessed_memory)
                         THEN _update_memory_access(memories,
                                  Get(stats.most_accessed_memory).id)
                         ELSE memories
    /\ UNCHANGED <<concepts, memory_concepts, uuid_seq, now, conns>>

get_user_memory_stats(user_id) ==
    /\ call' = [op |-> "get_user_memory_stats", user_id |-> user_id]
    /\ \E stats \in UserStats(user_id) : ret' = [ok |-> TRUE, stats |-> stats]
    /\ UNCHANGED <<memories, concepts, memory_concepts, uuid_seq, now, conns>>

----------------------------------------------------------------------------
(* prune_old_memories *)

\* The attributes class MemoryStore defines.
MemoryStoreAttributes ==
    {"__init__", "_initialize_database", "store_memory", "_extract_concepts",
     "_get_or_create_concept", "retrieve_memories", "_update_memory_access",
     "delete_memories_by_content", "get_memory_by_id",
     "update_memory_importance", "get_user_memory_stats"}

\* memory_store.prune_old_memories(retention_days=..., importance_threshold=...)
\* as the test suite calls it: looking up a name the class does not define
\* raises AttributeError before anything runs.
prune_old_memories(retention_days, importance_threshold) ==
    /\ "prune_old_memories" \notin MemoryStoreAttributes
    /\ call' = [op |-> "prune_old_memories", retention_days |-> retention_days,
                importance_threshold |-> importance_threshold]
    /\ ret' = Raise("AttributeError")
    /\ UNCHANGED <<memories, concepts, memory_concepts, uuid_seq, now, conns>>

----------------------------------------------------------------------------
(* Storage failures. Any statement a handler sends to SQLite, and its      *)
(* commit, can raise sqlite3.Error (a locked database, an I/O error). The  *)
(* writes a connection made before the failure are uncommitted.            *)

\* The tables as a dying connection leaves them, with the uncommitted
\* writes committed all the same.
commit_uncommitted(committed, uncommitted) == uncommitted

\* conn.rollback(), and conn.close() on an open transaction: the
\* uncommitted writes are dropped and the tables stay as last committed.
rollback(committed, uncommitted) == committed

\* The loop of store_memory cut short: what `done` statements of it have
\* written, one _get_or_create_concept and one link INSERT per concept,
\* walking the concepts as LinkConcepts does.
RECURSIVE PartialLinks(_, _, _, _, _)
PartialLinks(todo, memory_id, tbl, links, done) ==
    IF todo = {} \/ done <= 0
    THEN [concepts |-> tbl, memory_concepts |-> links]
    ELSE LET cw == CHOOSE x \in todo : TRUE
             got == _get_or_create_concept(tbl, cw[1])
         IN  IF done = 1
             THEN [concepts |-> got.concepts, memory_concepts |-> links]
             ELSE PartialLinks(todo \ {cw}, memory_id, got.concepts,
                               links \cup {[memory_id |-> memory_id,
                                            concept_id |-> got.id,
                                            weight |-> cw[2]]},
                               done - 2)

\* store_memory when its statement number `failed` raises: statement 1 is
\* the INSERT INTO memories, then two per concept, then the commit. The
\* handler rolls back and re-raises.
store_memory_fails(user_id, content, conversation_id, timestamp, importance, failed) ==
    /\ uuid_seq < MaxMemories
    /\ failed \in 1..(2 * Cardinality(_extract_concepts(content)) + 2)
    /\ LET memory_id == uuid_seq + 1
           created_at == IF IsSome(timestamp) THEN Get(timestamp) ELSE now
           inserted == IF failed = 1 THEN memories
                       ELSE [id \in DOMAIN memories \cup {memory_id} |->
                                IF id = memory_id
                                THEN NewMemory(user_id, content, conversation_id,
                                               StoredImportance(importance),
                                               created_at)
                                ELSE memories[id]]
           linked == PartialLinks(_extract_concepts(content), memory_id,
                                  concepts, memory_concepts, failed - 2)
       IN  /\ memories' = rollback(memories, inserted)
           /\ concepts' = rollback(concepts, linked.concepts)
           /\ memory_concepts' = rollback(memory_concepts, linked.memory_concepts)
           /\ uuid_seq' = memory_id
    /\ call' = [op |-> "store_memory", user_id |-> user_id, content |-> content,
                conversation_id |-> conversation_id, importance |-> importance]
    /\ ret' = Raise("OperationalError")
    /\ UNCHANGED <<now, conns>>

\* retrieve_memories in concept mode when its statement number `failed`
\* raises: statement 1 is the SELECT, then one access UPDATE per fetched
\* row, then the commit. The handler rolls back and re-raises.
retrieve_memories_fails(user_id, query, concept_list, limit, min_importance, conversation_id, failed) ==
    /\ concept_list # <<>>
    /\ call' = [op |-> "retrieve_memories", user_id |-> user_id, query |-> query,
                concepts |-> concept_list, limit |-> limit,
                min_importance |-> min_importance,
                conversation_id |-> conversation_id]
    /\ ret' = Raise("OperationalError")
    /\ \E rows \in ConceptRows(user_id, concept_list, limit, min_importance,
                               conversation_id) :
          /\ failed \in 1..(Len(rows) + 2)
          /\ LET updated == IF failed = 1 THEN <<>>
                            ELSE SubSeq(rows, 1, failed - 2)
             IN  memories' = rollback(memories, AccessRows(updated, 1, memories))
    /\ UNCHANGED <<concepts, memory_concepts, uuid_seq, now, conns>>

\* delete_memories_by_content when its statement number `failed` raises:
\* the SELECT, then, if it found rows, the DELETE and the commit. The
\* handler rolls back and re-raises.
delete_memories_by_content_fails(user_id, content_pattern, failed) ==
    /\ call' = [op |-> "delete_memories_by_content", user_id |-> user_id,
                content_pattern |-> content_pattern]
    /\ LET memory_ids == MatchingIds(user_id, content_pattern)
           deleted == IF failed = 3 THEN memory_ids ELSE {}
       IN  /\ failed \in 1..(IF memory_ids = {} THEN 1 ELSE 3)
           /\ memories' = rollback(memories,
                                   [id \in DOMAIN memories \ deleted |-> memories[id]])
           /\ memory_concepts' = rollback(memory_concepts, LinksAfterDelete(deleted))
    /\ ret' = Raise("OperationalError")
    /\ UNCHANGED <<concepts, uuid_seq, now, conns>>

\* get_memory_by_id when its statement number `failed` raises: the SELECT,
\* then, if it found the row, the access UPDATE and the commit. The handler
\* logs the exception and returns None; closing the connection drops what
\* was not committed.
get_memory_by_id_fails(memory_id, failed) ==
    /\ call' = [op |-> "get_memory_by_id", memory_id |-> memory_id]
    /\ failed \in 1..(IF memory_id \in DOMAIN memories THEN 3 ELSE 1)
    /\ memories' = rollback(memories,
                            IF failed = 3
                            THEN _update_memory_access(memories, memory_id)
                            ELSE memories)
    /\ ret' = [ok |-> TRUE, memory |-> None]
    /\ UNCHANGED <<concepts, memory_concepts, uuid_seq, now, conns>>

\* update_memory_importance when the UPDATE (1) or the commit (2) raises:
\* the handler rolls back, logs the exception and returns False.
update_memory_importance_fails(memory_id, importance, failed) ==
    /\ call' = [op |-> "update_memory_importance", memory_id |-> memory_id,
                importance |-> importance]
    /\ failed \in 1..2
    /\ memories' = rollback(memories,
                            IF failed = 1 THEN memories
                            ELSE [id \in DOMAIN memories |->
                                     IF id = memory_id
                                     THEN [memories[id] EXCEPT
                                               !.importance = Clamp(importance)]
                                     ELSE memories[id]])
    /\ ret' = [ok |-> TRUE, updated |-> FALSE]
    /\ UNCHANGED <<concepts, memory_concepts, uuid_seq, now, conns>>

\* get_user_memory_stats when one of its SELECTs raises: the handler logs
\* the exception and returns a dictionary holding user_id and the error
\* text.
get_user_memory_stats_fails(user_id) ==
    /\ call' = [op |-> "get_user_memory_stats", user_id |-> user_id]
    /\ ret' = [ok |-> TRUE,
               stats |-> [user_id |-> user_id, error |-> "OperationalError"]]
    /\ UNCHANGED <<memories, concepts, memory_concepts, uuid_seq, now, conns>>

----------------------------------------------------------------------------
(* The clock. *)

\* Time passes between calls: datetime.now() gives a later time (the
\* machine's clock is not set back).
Tick ==
    /\ now < MaxTime
    /\ now' = now + 1
    /\ UNCHANGED <<memories, concepts, memory_concepts, uuid_seq, call, ret, conns>>

----------------------------------------------------------------------------
(* Callers. Each public method opens a connection of its own            *)
(* (sqlite3.connect) and closes it before it returns.                    *)

Callers == {"a", "b"}

\* No call under way.
closed == [pc |-> "closed"]

----------------------------------------------------------------------------
(* Concurrent callers. A handler runs statement by statement on its own    *)
(* connection. sqlite3 opens a transaction before the connection's first   *)
(* INSERT, UPDATE or DELETE; what the transaction writes is seen by its    *)
(* own connection only, until the commit. A SELECT outside a transaction   *)
(* reads what is committed. conns[c].log holds the writes of c's open      *)
(* transaction, in order.                                                  *)

\* The committed tables.
Committed ==
    [memories |-> memories, concepts |-> concepts,
     memory_concepts |-> memory_concepts]

\* One write applied to tables t.
ApplyWrite(w, t) ==
    CASE w.k = "memory" ->
            [t EXCEPT !.memories = [id \in DOMAIN t.memories \cup {w.id} |->
                                       IF id = w.id THEN w.row ELSE t.memories[id]]]
      [] w.k = "concept" -> [t EXCEPT !.concepts = @ \cup {w.concept}]
      [] w.k = "link" -> [t EXCEPT !.memory_concepts = @ \cup {w.link}]
      [] w.k = "access" ->
            [t EXCEPT !.memories = _update_memory_access(@, w.id)]
      [] w.k = "delete" ->
            [t EXCEPT !.memories = [id \in DOMAIN t.memories \ w.ids |->
                                       t.memories[id]],
                      !.memory_concepts =
                          IF foreign_keys
                          THEN {mc \in @ : mc.memory_id \notin w.ids}
                          ELSE @]

RECURSIVE Apply(_, _)
Apply(log, t) ==
    IF log = <<>> THEN t ELSE Apply(Tail(log), ApplyWrite(Head(log), t))

\* What connection c reads: the committed tables under its own writes.
View(c) == Apply(conns[c].log, Committed)

\* A database that lets every connection write at any time.
AlwaysWritable(c) == TRUE

\* SQLite's write lock: a connection gets it with the first write of its
\* transaction and keeps it until commit or rollback; a write by another
\* connection meanwhile waits, and raises "database is locked" when the
\* wait times out.
CanWrite(c) ==
    \A other \in Callers \ {c} :
        conns[other].pc = "closed" \/ conns[other].log = <<>>

\* The call of c ends: its connection is closed and the caller has result.
Finish(c, result) ==
    /\ conns' = [conns EXCEPT ![c] = closed]
    /\ call' = conns[c].call
    /\ ret' = result

\* conn.commit() of c's transaction.
Commit(c) ==
    LET t == Apply(conns[c].log, Committed)
    IN  /\ memories' = t.memories
        /\ concepts' = t.concepts
        /\ memory_concepts' = t.memory_concepts

\* A write of c timed out on the lock: the handler's except branch rolls
\* back and re-raises.
Busy(c) ==
    /\ Finish(c, Raise("OperationalError"))
    /\ UNCHANGED <<memories, concepts, memory_concepts>>

\* str(uuid.uuid4()) for a concept: an id no concept row has, committed
\* or written by any open transaction.
FreshConceptId ==
    LET written(c) == IF conns[c].pc = "closed" THEN {}
                      ELSE {conns[c].log[i].concept.id :
                               i \in {j \in DOMAIN conns[c].log :
                                         conns[c].log[j].k = "concept"}}
        used == {row.id : row \in concepts} \cup UNION {written(c) : c \in Callers}
    IN  IF used = {} THEN 1
        ELSE 1 + (CHOOSE n \in used : \A other \in used : other <= n)

\* _get_or_create_concept on the connection of c: the SELECT reads c's
\* view; a concept it does not find is inserted under a fresh uuid.
ResolveConcept(c, concept) ==
    LET seen == View(c).concepts
    IN  IF \E row \in seen : row.concept = concept
        THEN [id |-> (CHOOSE row \in seen : row.concept = concept).id,
              writes |-> <<>>]
        ELSE [id |-> FreshConceptId,
              writes |-> <<[k |-> "concept",
                            concept |-> [id |-> FreshConceptId,
                                         concept |-> concept]]>>]

\* store_memory up to sqlite3.connect: the memory id and the timestamp.
store_memory_begin(c, user_id, content, conversation_id, timestamp, importance) ==
    /\ conns[c] = closed
    /\ uuid_seq < MaxMemories
    /\ uuid_seq' = uuid_seq + 1
    /\ conns' = [conns EXCEPT ![c] =
                    [pc |-> "store_insert",
                     call |-> [op |-> "store_memory", user_id |-> user_id,
                               content |-> content,
                               conversation_id |-> conversation_id,
                               importance |-> importance],
                     memory_id |-> uuid_seq + 1,
                     created_at |-> IF IsSome(timestamp) THEN Get(timestamp)
                                    ELSE now,
                     todo |-> _extract_concepts(content),
                     log |-> <<>>]]
    /\ UNCHANGED <<memories, concepts, memory_concepts, now, call, ret>>

\* INSERT INTO memories: the first write of the transaction.
store_memory_insert(c) ==
    /\ conns[c].pc = "store_insert"
    /\ IF CanWrite(c)
       THEN LET k == conns[c].call
                row == NewMemory(k.user_id, k.content, k.conversation_id,
                                 StoredImportance(k.importance),
                                 conns[c].created_at)
            IN  /\ conns' = [conns EXCEPT
                               ![c].pc = "store_link",
                               ![c].log = <<[k |-> "memory",
                                             id |-> conns[c].memory_id,
                                             row |-> row]>>]
                /\ UNCHANGED <<memories, concepts, memory_concepts, call, ret>>
       ELSE Busy(c)
    /\ UNCHANGED <<uuid_seq, now>>

\* One turn of the loop over the extracted concepts:
\* _get_or_create_concept, then INSERT INTO memory_concepts.
store_memory_link(c) ==
    /\ conns[c].pc = "store_link"
    /\ conns[c].todo # {}
    /\ LET cw == CHOOSE x \in conns[c].todo : TRUE
           got == ResolveConcept(c, cw[1])
           link == [k |-> "link",
                    link |-> [memory_id |-> conns[c].memory_id,
                              concept_id |-> got.id, weight |-> cw[2]]]
       IN  conns' = [conns EXCEPT ![c].todo = @ \ {cw},
                                  ![c].log = @ \o got.writes \o <<link>>]
    /\ UNCHANGED <<memories, concepts, memory_concepts, uuid_seq, now, call, ret>>

\* conn.commit() and return memory_id.
store_memory_commit(c) ==
    /\ conns[c].pc = "store_link"
    /\ conns[c].todo = {}
    /\ Commit(c)
    /\ Finish(c, [ok |-> TRUE, memory_id |-> conns[c].memory_id])
    /\ UNCHANGED <<uuid_seq, now>>

\* retrieve_memories in concept mode up to rows = cursor.fetchall(): the
\* SELECT runs outside a transaction, on what is committed.
retrieve_memories_select(c, user_id, query, concept_list, limit, min_importance, conversation_id) ==
    /\ conns[c] = closed
    /\ concept_list # <<>>
    /\ \E rows \in ConceptRows(user_id, concept_list, limit, min_importance,
                               conversation_id) :
          conns' = [conns EXCEPT ![c] =
                       [pc |-> "retrieve_update",
                        call |-> [op |-> "retrieve_memories",
                                  user_id |-> user_id, query |-> query,
                                  concepts |-> concept_list, limit |-> limit,
                                  min_importance |-> min_importance,
                                  conversation_id |-> conversation_id],
                        rows |-> rows, i |-> 1, log |-> <<>>]]
    /\ UNCHANGED <<memories, concepts, memory_concepts, uuid_seq, now, call, ret>>

\* One turn of the loop over rows: _update_memory_access(cursor, id). The
\* first turn opens the transaction.
retrieve_memories_update(c) ==
    /\ conns[c].pc = "retrieve_update"
    /\ conns[c].i <= Len(conns[c].rows)
    /\ IF CanWrite(c)
       THEN LET id == conns[c].rows[conns[c].i].id
            IN  /\ id \in DOMAIN View(c).memories =>
                       View(c).memories[id].access_count < MaxAccess
                /\ conns' = [conns EXCEPT
                               ![c].i = @ + 1,
                               ![c].log = @ \o <<[k |-> "access", id |-> id]>>]
                /\ UNCHANGED <<memories, concepts, memory_concepts, call, ret>>
       ELSE Busy(c)
    /\ UNCHANGED <<uuid_seq, now>>

\* conn.commit() and return memories.
retrieve_memories_commit(c) ==
    /\ conns[c].pc = "retrieve_update"
    /\ conns[c].i > Len(conns[c].rows)
    /\ Commit(c)
    /\ Finish(c, [ok |-> TRUE, memories |-> conns[c].rows])
    /\ UNCHANGED <<uuid_seq, now>>

\* delete_memories_by_content up to memory_ids: the SELECT runs outside a
\* transaction; with no id found the call returns [] at once.
delete_memories_by_content_select(c, user_id, content_pattern) ==
    /\ conns[c] = closed
    /\ LET memory_ids == MatchingIds(user_id, content_pattern)
           k == [op |-> "delete_memories_by_content", user_id |-> user_id,
                 content_pattern |-> content_pattern]
       IN  IF memory_ids = {}
           THEN /\ call' = k
                /\ ret' = [ok |-> TRUE, memory_ids |-> {}]
                /\ UNCHANGED conns
           ELSE /\ conns' = [conns EXCEPT ![c] =
                                [pc |-> "delete_delete", call |-> k,
                                 memory_ids |-> memory_ids, log |-> <<>>]]
                /\ UNCHANGED <<call, ret>>
    /\ UNCHANGED <<memories, concepts, memory_concepts, uuid_seq, now>>

\* DELETE FROM memories WHERE id IN (...): the only write of the call.
delete_memories_by_content_delete(c) ==
    /\ conns[c].pc = "delete_delete"
    /\ IF CanWrite(c)
       THEN /\ conns' = [conns EXCEPT
                           ![c].pc = "delete_commit",
                           ![c].log = <<[k |-> "delete",
                                         ids |-> conns[c].memory_ids]>>]
            /\ UNCHANGED <<memories, concepts, memory_concepts, call, ret>>
       ELSE Busy(c)
    /\ UNCHANGED <<uuid_seq, now>>

\* conn.commit() and return memory_ids.
delete_memories_by_content_commit(c) ==
    /\ conns[c].pc = "delete_commit"
    /\ Commit(c)
    /\ Finish(c, [ok |-> TRUE, memory_ids |-> conns[c].memory_ids])
    /\ UNCHANGED <<uuid_seq, now>>

----------------------------------------------------------------------------
(* The arguments callers pass. *)

u1 == <<"u", "1">>
u2 == <<"u", "2">>

cats_dogs == <<"c", "a", "t", "s", " ", "d", "o", "g", "s">>
Cats == <<"C", "a", "t", "s">>
a_sun == <<"a", " ", "s", "u", "n">>

cats == <<"c", "a", "t", "s">>
c_ts == <<"c", "_", "t", "s">>
zero_3 == <<"0", ".", "3">>

Init ==
    /\ memories = <<>>
    /\ concepts = {}
    /\ memory_concepts = {}
    /\ uuid_seq = 0
    /\ now = 0
    /\ call = [op |-> "__init__"]
    /\ ret = [ok |-> TRUE]
    /\ conns = [c \in Callers |-> closed]

\* Every public operation, with its arguments drawn from the sets of I.
Operations(I) ==
    \/ \E user_id \in I.users, content \in I.contents,
          conversation_id \in I.conversations, timestamp \in I.timestamps,
          importance \in I.importances :
          store_memory(user_id, content, conversation_id, timestamp, importance)
    \/ \E user_id \in I.users, concept_list \in I.concept_lists,
          limit \in I.limits, conversation_id \in I.conversations :
          retrieve_memories(user_id, cats, concept_list, limit, 0, conversation_id)
    \/ \E user_id \in I.users, content_pattern \in I.patterns :
          delete_memories_by_content(user_id, content_pattern)
    \/ \E memory_id \in 1..MaxMemories : get_memory_by_id(memory_id)
    \/ \E memory_id \in 1..MaxMemories, importance \in I.new_importances :
          update_memory_importance(memory_id, importance)
    \/ \E user_id \in I.users : get_user_memory_stats(user_id)
    \/ \E importance_threshold \in I.thresholds :
          prune_old_memories(0, importance_threshold)

\* The store without a clock: every call is made at time 0.
StoreInputs ==
    [users |-> {u1, u2},
     contents |-> {cats_dogs, Cats, a_sun},
     conversations |-> {None},
     timestamps |-> {None},
     importances |-> {-5, 5},
     concept_lists |-> {<<>>, <<cats>>, <<u1, zero_3>>},
     limits |-> {1, 5},
     patterns |-> {cats, c_ts},
     new_importances |-> {15},
     thresholds |-> {6}]

Next == Operations(StoreInputs)

Spec == Init /\ [][Next]_vars

\* The same operations on a leaner store: one content, two users, an
\* importance below and one above the 0.3 that <<u1, zero_3>> asks for.
FrameInputs ==
    [users |-> {u1, u2},
     contents |-> {cats_dogs},
     conversations |-> {None},
     timestamps |-> {None},
     importances |-> {-5, 5},
     concept_lists |-> {<<>>, <<u1, zero_3>>},
     limits |-> {1, 5},
     patterns |-> {c_ts},
     new_importances |-> {5},
     thresholds |-> {6}]

FrameNext == Operations(FrameInputs)

FrameSpec == Init /\ [][FrameNext]_vars

\* The store with its clock: time passes between calls. Callers give the
\* creation timestamp 0 themselves.
ClockInputs ==
    [users |-> {u1},
     contents |-> {cats_dogs},
     conversations |-> {None},
     timestamps |-> {Some(0)},
     importances |-> {5},
     concept_lists |-> {<<>>, <<u1, zero_3>>},
     limits |-> {1, 5},
     patterns |-> {c_ts},
     new_importances |-> {5},
     thresholds |-> {6}]

ClockNext == Operations(ClockInputs) \/ Tick

ClockSpec == Init /\ [][ClockNext]_vars

\* The store on storage that can fail: every operation, and every
\* operation with one of its statements raising.
FaultInputs ==
    [users |-> {u1},
     contents |-> {cats_dogs},
     conversations |-> {None},
     timestamps |-> {None},
     importances |-> {5},
     concept_lists |-> {<<>>, <<u1, zero_3>>},
     limits |-> {5},
     patterns |-> {c_ts},
     new_importances |-> {15},
     thresholds |-> {6}]

\* The longest handler of FaultInputs sends six statements: store_memory
\* on a content of two concepts.
Statements == 1..6

Failures(I) ==
    \/ \E user_id \in I.users, content \in I.contents,
          conversation_id \in I.conversations, timestamp \in I.timestamps,
          importance \in I.importances, failed \in Statements :
          store_memory_fails(user_id, content, conversation_id, timestamp,
                             importance, failed)
    \/ \E user_id \in I.users, concept_list \in I.concept_lists,
          limit \in I.limits, conversation_id \in I.conversations,
          failed \in Statements :
          retrieve_memories_fails(user_id, cats, concept_list, limit, 0,
                                  conversation_id, failed)
    \/ \E user_id \in I.users, content_pattern \in I.patterns,
          failed \in Statements :
          delete_memories_by_content_fails(user_id, content_pattern, failed)
    \/ \E memory_id \in 1..MaxMemories, failed \in Statements :
          get_memory_by_id_fails(memory_id, failed)
    \/ \E memory_id \in 1..MaxMemories, importance \in I.new_importances,
          failed \in Statements :
          update_memory_importance_fails(memory_id, importance, failed)
    \/ \E user_id \in I.users : get_user_memory_stats_fails(user_id)

FaultNext == Failures(FaultInputs) \/ Operations(FaultInputs)

FaultSpec == Init /\ [][FaultNext]_vars

\* The store asked for its boundary cases: a negative limit, limit 0, and
\* new importances below, inside and above the range.
BoundaryInputs ==
    [users |-> {u1},
     contents |-> {cats_dogs},
     conversations |-> {None},
     timestamps |-> {None},
     importances |-> {5},
     concept_lists |-> {<<>>, <<u1, zero_3>>},
     limits |-> {-1, 0, 1},
     patterns |-> {c_ts},
     new_importances |-> {-5, 3, 15},
     thresholds |-> {6}]

BoundaryNext == Operations(BoundaryInputs)

BoundarySpec == Init /\ [][BoundaryNext]_vars

\* One user storing contents that share a concept word ("cats dogs" and
\* "Cats"), and one with no word longer than 3 characters ("a sun").
ConceptInputs ==
    [users |-> {u1},
     contents |-> {cats_dogs, Cats, a_sun},
     conversations |-> {None},
     timestamps |-> {None},
     importances |-> {5},
     concept_lists |-> {<<u1, zero_3>>},
     limits |-> {5},
     patterns |-> {c_ts},
     new_importances |-> {5},
     thresholds |-> {6}]

ConceptNext == Operations(ConceptInputs)

ConceptSpec == Init /\ [][ConceptNext]_vars

\* A caller that also stores the empty string.
BlankInputs ==
    [users |-> {u1},
     contents |-> {<<>>, cats_dogs},
     conversations |-> {None},
     timestamps |-> {None},
     importances |-> {5},
     concept_lists |-> {<<u1, zero_3>>},
     limits |-> {5},
     patterns |-> {c_ts},
     new_importances |-> {5},
     thresholds |-> {6}]

BlankNext == Operations(BlankInputs)

BlankSpec == Init /\ [][BlankNext]_vars

\* Two callers at once. Both store the same content, whose one concept
\* is new to the store; the retrievals ask for u1's memories.
ConcurrentNext ==
    \E c \in Callers :
        \/ store_memory_begin(c, u1, Cats, None, None, 5)
        \/ store_memory_insert(c)
        \/ store_memory_link(c)
        \/ store_memory_commit(c)
        \/ retrieve_memories_select(c, u1, cats, <<u1, zero_3>>, 5, 0, None)
        \/ retrieve_memories_update(c)
        \/ retrieve_memories_commit(c)
        \/ delete_memories_by_content_select(c, u1, c_ts)
        \/ delete_memories_by_content_delete(c)
        \/ delete_memories_by_content_commit(c)

ConcurrentSpec == Init /\ [][ConcurrentNext]_vars

----------------------------------------------------------------------------
(* Vocabulary of the claims. *)

\* The step is a call of op: every operation leaves the clock alone, and
\* Tick leaves call alone.
Called(op) == call'.op = op /\ now' = now

\* The ids of the rows a retrieve_memories call returned.
RowIds(rows) == {rows[i].id : i \in 1..Len(rows)}

\* The concepts a memory is linked to whose text is in a list.
MatchingLinks(id, concept_list) ==
    {mc \in LinksOf(id) :
        \E c \in concepts :
            /\ c.id = mc.concept_id
            /\ \E i \in 1..Len(concept_list) : c.concept = concept_list[i]}

\* The memories of a call's user that pass its min_importance and
\* conversation_id filters.
PassesFilters(id, user_id, min_importance, conversation_id) ==
    /\ memories[id].user_id = user_id
    /\ memories[id].importance >= min_importance
    /\ Truthy(conversation_id) => memories[id].conversation_id = conversation_id

----------------------------------------------------------------------------
(* C1. In every reachable state every memory_concepts link references a    *)
(* memory row and a concept row that both exist; once a memory has been    *)
(* deleted no link carrying its id remains.                                *)

C1_LinksReferenceExistingRows ==
    \A mc \in memory_concepts :
        /\ mc.memory_id \in DOMAIN memories
        /\ \E c \in concepts : c.id = mc.concept_id

(* C2. retrieve_memories with a non-empty concept list returns exactly the *)
(* memories of the user that pass the other filters and are linked to at   *)
(* least one concept whose text is in the list, up to the limit; a memory  *)
(* with no link to a supplied concept is never returned.                   *)

C2_ConceptRetrievalReturnsLinked ==
    (call.op = "retrieve_memories" /\ call.concepts # <<>>) =>
        /\ ret.ok
        /\ LET linked == {id \in DOMAIN memories :
                            /\ PassesFilters(id, call.user_id, call.min_importance,
                                             call.conversation_id)
                            /\ MatchingLinks(id, call.concepts) # {}}
           IN  /\ RowIds(ret.memories) \subseteq linked
               /\ Cardinality(RowIds(ret.memories)) = Len(ret.memories)
               /\ \/ Len(ret.memories) = Cardinality(linked)
                  \/ Len(ret.memories) = call.limit /\ call.limit <= Cardinality(linked)

(* C3. In concept-ranked retrieval every returned row's concept_matches is *)
(* the number of distinct linked concepts whose text is in the supplied    *)
(* list and its relevance_score the sum of the weights of exactly those    *)
(* links, and the rows come ordered by concept_matches, then               *)
(* relevance_score, then importance, all descending.                       *)

C3_RankedByMatchingConcepts ==
    (call.op = "retrieve_memories" /\ call.concepts # <<>> /\ ret.ok) =>
        /\ \A i \in 1..Len(ret.memories) :
              LET matching == MatchingLinks(ret.memories[i].id, call.concepts)
              IN  /\ ret.memories[i].concept_matches = Cardinality(matching)
                  /\ matching # {} =>
                        ret.memories[i].relevance_score = Some(SumWeights(matching))
        /\ \A i, j \in 1..Len(ret.memories) :
              i < j => ~Before(ret.memories[j], ret.memories[i])

(* C4. After store_memory has returned id m, retrieve_memories for the     *)
(* same user with no concepts, a sufficient limit and a query equal to a   *)
(* word that occurs only in m's content completes without error and        *)
(* returns a list containing m.                                            *)

C4_StoredMemoryFoundByWord ==
    (call.op = "retrieve_memories" /\ call.concepts = <<>>) =>
        \A m \in DOMAIN memories :
            (/\ PassesFilters(m, call.user_id, call.min_importance,
                              call.conversation_id)
             /\ \E i \in 1..Len(split(memories[m].content)) :
                    split(memories[m].content)[i] = call.query
             /\ \A other \in DOMAIN memories \ {m} :
                    ~Contains(memories[other].content, call.query)
             /\ call.limit >= Cardinality(DOMAIN memories))
            => (ret.ok /\ m \in RowIds(ret.memories))

(* C5. In every reachable state every stored memory's importance lies in   *)
(* [0.0, 1.0], whatever importance store_memory or                         *)
(* update_memory_importance was given.                                     *)

C5_ImportanceInUnitInterval ==
    \A id \in DOMAIN memories :
        memories[id].importance >= 0 /\ memories[id].importance <= 10

(* C6. A stored memory starts with access_count 0 and no last_accessed;    *)
(* every retrieve_memories call that returns it adds exactly one to its    *)
(* access_count and sets its last_accessed to the time of the call, and    *)
(* no step other than an access (a retrieval that returns it, or           *)
(* get_memory_by_id) changes either field. So after n retrievals that      *)
(* return it and no other access, access_count is n and last_accessed the  *)
(* time of the last one.                                                   *)

C6_AccessCountCountsRetrievals ==
    [][/\ (Called("store_memory") /\ ret'.ok) =>
              /\ memories'[ret'.memory_id].access_count = 0
              /\ memories'[ret'.memory_id].last_accessed = None
       /\ (Called("retrieve_memories") /\ ret'.ok) =>
              \A id \in RowIds(ret'.memories) :
                  /\ memories'[id].access_count = memories[id].access_count + 1
                  /\ memories'[id].last_accessed = Some(now)
       /\ ~Called("get_memory_by_id") =>
              \A id \in DOMAIN memories \cap DOMAIN memories' :
                  (Called("retrieve_memories") /\ ret'.ok
                       /\ id \in RowIds(ret'.memories))
                  \/ /\ memories'[id].access_count = memories[id].access_count
                     /\ memories'[id].last_accessed = memories[id].last_accessed
      ]_vars

\* A second retrieval has just returned a memory, later than the first.
C6_Witness ==
    /\ call.op = "retrieve_memories"
    /\ ret.ok
    /\ now = 1
    /\ \E id \in RowIds(ret.memories) :
           /\ memories[id].access_count = 2
           /\ memories[id].last_accessed = Some(1)

(* C7. A successful retrieve_memories call creates and deletes no memory,  *)
(* concept or link; of the memories it returned it changes access_count    *)
(* and last_accessed and nothing else; every memory it did not return      *)
(* keeps all its fields.                                                   *)

C7_RetrievalTouchesOnlyReturnedRows ==
    [][(Called("retrieve_memories") /\ ret'.ok) =>
           /\ DOMAIN memories' = DOMAIN memories
           /\ concepts' = concepts
           /\ memory_concepts' = memory_concepts
           /\ \A id \in DOMAIN memories :
                  IF id \in RowIds(ret'.memories)
                  THEN /\ memories'[id].access_count # memories[id].access_count
                       /\ memories'[id].last_accessed = Some(now)
                       /\ [memories'[id] EXCEPT
                               !.access_count = memories[id].access_count,
                               !.last_accessed = memories[id].last_accessed]
                              = memories[id]
                  ELSE memories'[id] = memories[id]
      ]_vars

\* A retrieval with limit 1 has returned one of two memories that both pass
\* its filters; the one cut off by the limit was never accessed.
C7_Witness ==
    /\ call.op = "retrieve_memories"
    /\ ret.ok
    /\ call.limit = 1
    /\ Len(ret.memories) = 1
    /\ \E id \in DOMAIN memories \ RowIds(ret.memories) :
           /\ memories[id].user_id = memories[ret.memories[1].id].user_id
           /\ memories[id].importance = memories[ret.memories[1].id].importance
           /\ memories[id].access_count = 0
           /\ memories[id].last_accessed = None

\* The text holds one of LIKE's wildcard characters.
HasWildcard(s) == \E i \in 1..Len(s) : s[i] \in {"%", "_"}

(* C8. delete_memories_by_content(user_id, pattern), for a pattern of      *)
(* ordinary characters, deletes exactly the memories of user_id whose      *)
(* content contains pattern as a case-sensitive substring and returns      *)
(* exactly their ids; every other memory stays stored unchanged.           *)

C8_DeletesCaseSensitiveMatches ==
    [][(Called("delete_memories_by_content")
            /\ ~HasWildcard(call'.content_pattern)) =>
           LET hit == {id \in DOMAIN memories :
                          /\ memories[id].user_id = call'.user_id
                          /\ Contains(memories[id].content, call'.content_pattern)}
           IN  /\ ret'.ok
               /\ ret'.memory_ids = hit
               /\ DOMAIN memories' = DOMAIN memories \ hit
               /\ \A id \in DOMAIN memories' : memories'[id] = memories[id]
      ]_vars

(* C9. Caller-supplied text is matched against content character by        *)
(* character: whatever delete_memories_by_content deletes, and whatever    *)
(* substring-mode retrieve_memories returns, holds the pattern's own       *)
(* characters (letter case aside), '%' and '_' included.                   *)

C9_WildcardsMatchLiterally ==
    [][/\ Called("delete_memories_by_content") =>
              \A id \in ret'.memory_ids :
                  Contains(lower(memories[id].content),
                           lower(call'.content_pattern))
       /\ (Called("retrieve_memories") /\ call'.concepts = <<>> /\ ret'.ok) =>
              \A id \in RowIds(ret'.memories) :
                  Contains(lower(memories[id].content), lower(call'.query))
      ]_vars

(* C10. prune_old_memories(retention_days, importance_threshold) deletes   *)
(* exactly the memories created before now - retention_days whose          *)
(* importance is below importance_threshold and returns how many it        *)
(* deleted; every other memory survives unchanged.                         *)

C10_PruneDeletesOldUnimportant ==
    [][Called("prune_old_memories") =>
           LET doomed == {id \in DOMAIN memories :
                             /\ memories[id].created_at < now - call'.retention_days
                             /\ memories[id].importance < call'.importance_threshold}
           IN  /\ ret'.ok
               /\ ret'.count = Cardinality(doomed)
               /\ DOMAIN memories' = DOMAIN memories \ doomed
               /\ \A id \in DOMAIN memories' : memories'[id] = memories[id]
      ]_vars

(* C11. store_memory is all-or-nothing. A call that fails at any statement *)
(* (the memory insert, a concept resolution, a link insert, the commit)    *)
(* raises to its caller and leaves no memory row, no link and no concept   *)
(* row of its own in the committed tables; a call that succeeds commits    *)
(* the memory row together with one link per extracted concept.            *)

C11_StoreIsAllOrNothing ==
    [][Called("store_memory") =>
           IF ret'.ok
           THEN LET m == ret'.memory_id
                IN  /\ DOMAIN memories' = DOMAIN memories \cup {m}
                    /\ m \notin DOMAIN memories
                    /\ \A id \in DOMAIN memories : memories'[id] = memories[id]
                    /\ concepts \subseteq concepts'
                    /\ memory_concepts \subseteq memory_concepts'
                    /\ \A mc \in memory_concepts' \ memory_concepts :
                           mc.memory_id = m
                    /\ \A cw \in _extract_concepts(call'.content) :
                           \E mc \in memory_concepts' :
                               /\ mc.memory_id = m
                               /\ [id |-> mc.concept_id, concept |-> cw[1]]
                                      \in concepts'
           ELSE /\ memories' = memories
                /\ concepts' = concepts
                /\ memory_concepts' = memory_concepts
      ]_vars

\* A store_memory call has just failed on a store that holds the memory,
\* the two concepts and the two links of one earlier call, and nothing of
\* the failed one.
C11_Witness ==
    /\ call.op = "store_memory"
    /\ ~ret.ok
    /\ uuid_seq = 2
    /\ DOMAIN memories = {1}
    /\ Cardinality(concepts) = 2
    /\ Cardinality(memory_concepts) = 2
    /\ \A mc \in memory_concepts : mc.memory_id = 1

(* C12. Whenever a statement of a public operation raises in the storage   *)
(* layer, the caller gets an error outcome, never an ordinary result (not  *)
(* False, not None, not a statistics dictionary), and the tables are as    *)
(* before the call.                                                        *)

C12_FailuresReachTheCaller ==
    [][Failures(FaultInputs) =>
           /\ ~ret'.ok
           /\ memories' = memories
           /\ concepts' = concepts
           /\ memory_concepts' = memory_concepts
      ]_vars

(* C13. Under every interleaving of store_memory calls whose contents      *)
(* mention the same new concept text, no two rows of concepts carry the    *)
(* same text, and every link points at the one row of the text it was      *)
(* made for.                                                               *)

C13_OneRowPerConceptText ==
    /\ \A r1, r2 \in concepts : r1.concept = r2.concept => r1 = r2
    /\ \A mc \in memory_concepts :
           \E row \in concepts :
               /\ row.id = mc.concept_id
               /\ mc.memory_id \in DOMAIN memories =>
                      <<row.concept, mc.weight>>
                          \in _extract_concepts(memories[mc.memory_id].content)

\* Two store_memory calls with the same new concept overlapped: the call
\* that took memory id 1 has written its link while the memory of the
\* call begun after it is already committed, and it found the concept row
\* that call created.
C13_Witness ==
    /\ conns["b"].pc = "store_link"
    /\ conns["b"].memory_id = 1
    /\ conns["b"].todo = {}
    /\ Len(conns["b"].log) = 2
    /\ 2 \in DOMAIN memories
    /\ Cardinality(concepts) = 1
    /\ \E row \in concepts : conns["b"].log[2].link.concept_id = row.id

(* C14. retrieve_memories behaves as one atomic transaction: no other      *)
(* caller's committed delete or update takes effect between its SELECT and *)
(* its access updates, so when the call returns every memory of the        *)
(* returned list is stored and has the access_count the list was selected  *)
(* at, plus one.                                                           *)

C14_RetrievalIsOneTransaction ==
    [][\A c \in Callers :
           (retrieve_memories_commit(c) /\ ret'.ok) =>
               \A i \in 1..Len(ret'.memories) :
                   LET id == ret'.memories[i].id
                   IN  /\ id \in DOMAIN memories'
                       /\ id \in DOMAIN memories
                       /\ memories'[id].access_count
                              = memories[id].access_count + 1
      ]_vars

(* C15. Malformed input is rejected before anything is attempted. For a    *)
(* negative limit: retrieve_memories returns no memory (it fails with a    *)
(* validation error) and leaves every memory, concept, link and access     *)
(* counter as it was.                                                      *)

C15_NegativeLimitIsRejected ==
    [][(Called("retrieve_memories") /\ call'.limit < 0) =>
           /\ ret'.ok => ret'.memories = <<>>
           /\ UNCHANGED <<memories, concepts, memory_concepts>>
      ]_vars

(* C16. Every memory returned by retrieve_memories(user_id, ..., limit,    *)
(* min_importance, conversation_id) is owned by user_id, has importance    *)
(* >= min_importance and has the given conversation_id when one is         *)
(* supplied; for limit >= 0 the list has at most limit entries.            *)

C16_ReturnedRowsPassTheFilters ==
    (call.op = "retrieve_memories" /\ ret.ok) =>
        /\ \A i \in 1..Len(ret.memories) :
               PassesFilters(ret.memories[i].id, call.user_id,
                             call.min_importance, call.conversation_id)
        /\ call.limit >= 0 => Len(ret.memories) <= call.limit

(* C17. A storage error raised at any statement of retrieve_memories (the  *)
(* SELECT, any of the access updates, the commit) aborts the whole call:   *)
(* the error reaches the caller, no result list is returned, and no        *)
(* memory's access_count or last_accessed changes in the committed state.  *)

C17_FailedRetrievalChangesNothing ==
    [][(/\ Called("retrieve_memories")
        /\ \E failed \in Statements :
               retrieve_memories_fails(call'.user_id, call'.query, call'.concepts,
                                       call'.limit, call'.min_importance,
                                       call'.conversation_id, failed)) =>
               /\ ~ret'.ok
               /\ "memories" \notin DOMAIN ret'
               /\ DOMAIN memories' = DOMAIN memories
               /\ \A id \in DOMAIN memories :
                      /\ memories'[id].access_count = memories[id].access_count
                      /\ memories'[id].last_accessed = memories[id].last_accessed
      ]_vars

\* A retrieval in concept mode has just failed on a store that holds two
\* memories it selects (so it may have failed at its second access
\* update); one of them was never accessed.
C17_Witness ==
    /\ call.op = "retrieve_memories"
    /\ call.concepts # <<>>
    /\ call.limit >= 2
    /\ ~ret.ok
    /\ Cardinality(DOMAIN memories) = 2
    /\ \A id \in DOMAIN memories : memories[id].user_id = u1
    /\ \E id \in DOMAIN memories :
           memories[id].access_count = 0 /\ memories[id].last_accessed = None

(* C18. get_user_memory_stats(user_id) returns total_memories equal to the *)
(* number of memories user_id owns and average_importance equal to the     *)
(* mean of their importances; for a user who owns none it returns total 0, *)
(* average_importance 0.0 and no most_accessed_memory.                     *)

C18_StatsCountAndMean ==
    (call.op = "get_user_memory_stats" /\ "stats" \in DOMAIN ret) =>
        LET owned == {id \in DOMAIN memories : memories[id].user_id = call.user_id}
            stats == ret.stats
        IN  /\ "error" \notin DOMAIN stats
            /\ stats.total_memories = Cardinality(owned)
            /\ stats.average_importance.den > 0
            /\ stats.average_importance.num * Cardinality(owned)
                   = SumImportance(owned) * stats.average_importance.den
            /\ owned = {} =>
                   /\ stats.average_importance.num = 0
                   /\ stats.most_accessed_memory = None

\* The statistics of a user who owns one of the two stored memories have
\* just been returned; the other user's memory has another importance.
C18_Witness ==
    /\ call.op = "get_user_memory_stats"
    /\ "stats" \in DOMAIN ret
    /\ Cardinality(DOMAIN memories) = 2
    /\ \E id, other \in DOMAIN memories :
           /\ memories[id].user_id = call.user_id
           /\ memories[other].user_id # call.user_id
           /\ memories[id].importance # memories[other].importance
           /\ memories[id].importance # 0

(* C19. When the user owns at least one memory, the most_accessed_memory   *)
(* of get_user_memory_stats is a memory that user owns, no other memory of *)
(* that user has a greater access_count, and the access_count reported is  *)
(* the one stored.                                                         *)

C19_MostAccessedIsTheMaximum ==
    (call.op = "get_user_memory_stats" /\ "stats" \in DOMAIN ret) =>
        LET owned == {id \in DOMAIN memories : memories[id].user_id = call.user_id}
            most == ret.stats.most_accessed_memory
        IN  owned # {} =>
                /\ IsSome(most)
                /\ Get(most).id \in owned
                /\ Get(most).access_count = memories[Get(most).id].access_count
                /\ Get(most).content = memories[Get(most).id].content
                /\ \A other \in owned :
                       memories[other].access_count <= Get(most).access_count

\* The statistics of a user who owns two memories, one accessed more often
\* than the other, have just been returned.
C19_Witness ==
    /\ call.op = "get_user_memory_stats"
    /\ "stats" \in DOMAIN ret
    /\ \E id, other \in DOMAIN memories :
           /\ memories[id].user_id = call.user_id
           /\ memories[other].user_id = call.user_id
           /\ memories[id].access_count > memories[other].access_count
           /\ memories[other].access_count > 0
           /\ ret.stats.most_accessed_memory
                  = Some([id |-> id, content |-> memories[id].content,
                          access_count |-> memories[id].access_count])

(* C20. update_memory_importance(id, x) on an existing memory stores an    *)
(* importance in [0.0, 1.0] for every x: 0.0 for x < 0, 1.0 for x > 1 and  *)
(* x otherwise; it returns true and changes no other field of that memory, *)
(* no other memory, no concept and no link.                                *)

C20_UpdateClampsImportance ==
    [][(Called("update_memory_importance") /\ call'.memory_id \in DOMAIN memories) =>
           LET id == call'.memory_id
               x == call'.importance
           IN  /\ ret'.ok /\ ret'.updated
               /\ DOMAIN memories' = DOMAIN memories
               /\ memories'[id].importance >= 0 /\ memories'[id].importance <= 10
               /\ x < 0 => memories'[id].importance = 0
               /\ x > 10 => memories'[id].importance = 10
               /\ (x >= 0 /\ x <= 10) => memories'[id].importance = x
               /\ memories' = [memories EXCEPT ![id].importance = memories'[id].importance]
               /\ UNCHANGED <<concepts, memory_concepts>>
      ]_vars

\* An update with an importance below the range has just returned true:
\* the memory holds 0.0, the other memory what it was stored with, and
\* both have been accessed before.
C20_Witness ==
    /\ call.op = "update_memory_importance"
    /\ call.importance < 0
    /\ ret.ok /\ ret.updated
    /\ memories[call.memory_id].importance = 0
    /\ memories[call.memory_id].access_count > 0
    /\ \E other \in DOMAIN memories :
           other # call.memory_id /\ memories[other].importance = 5

(* C21. update_memory_importance called with an id that names no stored    *)
(* memory returns false, raises nothing, and leaves every memory, concept  *)
(* and link as it was.                                                     *)

C21_UpdateOfUnknownIdReturnsFalse ==
    [][(Called("update_memory_importance") /\ call'.memory_id \notin DOMAIN memories) =>
           /\ ret'.ok
           /\ ~ret'.updated
           /\ UNCHANGED <<memories, concepts, memory_concepts>>
      ]_vars

\* An update has just returned false for an id that names no memory, on a
\* store that holds another memory with its concepts and links.
C21_Witness ==
    /\ call.op = "update_memory_importance"
    /\ call.memory_id \notin DOMAIN memories
    /\ ret.ok /\ ~ret.updated
    /\ memories # <<>>
    /\ concepts # {}
    /\ \E mc \in memory_concepts : mc.memory_id \in DOMAIN memories

(* C22. Across every step, a stored memory's access_count never decreases  *)
(* and its last_accessed never moves to an earlier time; a memory is       *)
(* created with access_count 0 and no last_accessed, and keeps both until  *)
(* the first operation that returns it. Time is the clock of the model,   *)
(* which only moves forward.                                               *)

C22_AccessFieldsOnlyMoveForward ==
    [][\A id \in DOMAIN memories' :
           IF id \in DOMAIN memories
           THEN LET old == memories[id]
                    new == memories'[id]
                    returned ==
                        \/ /\ Called("retrieve_memories") /\ ret'.ok
                           /\ id \in RowIds(ret'.memories)
                        \/ /\ Called("get_memory_by_id")
                           /\ call'.memory_id = id
                           /\ ret'.memory # None
                IN  /\ new.access_count >= old.access_count
                    /\ IsSome(old.last_accessed) =>
                           /\ IsSome(new.last_accessed)
                           /\ Get(new.last_accessed) >= Get(old.last_accessed)
                    /\ returned \/ /\ new.access_count = old.access_count
                                   /\ new.last_accessed = old.last_accessed
           ELSE /\ memories'[id].access_count = 0
                /\ memories'[id].last_accessed = None
      ]_vars

\* Time has passed since the store was made. One memory was returned at
\* time 0 and again now; the other was never returned and still has
\* access_count 0 and no last_accessed.
C22_Witness ==
    /\ now = 1
    /\ \E id, other \in DOMAIN memories :
           /\ memories[id].access_count = 2
           /\ memories[id].last_accessed = Some(1)
           /\ memories[other].access_count = 0
           /\ memories[other].last_accessed = None

(* C23. Concept resolution is get-or-create. In every reachable state no   *)
(* two concept rows carry the same text, no (memory_id, concept_id) pair   *)
(* occurs in two links, and every concept word of a stored memory has      *)
(* exactly one concept row, to which that memory is linked: two memories   *)
(* that share a word share its row and have one link each to it.           *)

C23_ConceptsAreGetOrCreate ==
    /\ \A c1, c2 \in concepts :
           (c1.concept = c2.concept \/ c1.id = c2.id) => c1 = c2
    /\ \A l1, l2 \in memory_concepts :
           (l1.memory_id = l2.memory_id /\ l1.concept_id = l2.concept_id) => l1 = l2
    /\ \A id \in DOMAIN memories :
           \A cw \in _extract_concepts(memories[id].content) :
               LET rows == {c \in concepts : c.concept = cw[1]}
               IN  /\ Cardinality(rows) = 1
                   /\ \A c \in rows :
                          Cardinality({mc \in LinksOf(id) : mc.concept_id = c.id}) = 1

\* "cats dogs" and "Cats" are both stored: one concept row "cats", and a
\* link to it from each of the two memories.
C23_Witness ==
    \E id, other \in DOMAIN memories :
        /\ memories[id].content = cats_dogs
        /\ memories[other].content = Cats
        /\ \E c \in concepts :
               /\ c.concept = cats
               /\ \E l1 \in LinksOf(id), l2 \in LinksOf(other) :
                      l1.concept_id = c.id /\ l2.concept_id = c.id /\ l1 # l2

(* C24. In every reachable state every stored memory has a user_id and a   *)
(* non-empty content: store_memory never commits a memory whose content is *)
(* the empty string.                                                       *)

C24_ContentIsNeverEmpty ==
    \A id \in DOMAIN memories : memories[id].content # <<>>

(* C25. After a successful store_memory(content) the new memory is linked  *)
(* to exactly the concepts obtained by splitting content on whitespace,    *)
(* keeping the words longer than 3 characters and lowercasing them, with   *)
(* one link of weight 1.0 per distinct word; a content with no word longer *)
(* than 3 characters is stored with no link.                               *)

C25_LinkedToTheWordsOfItsContent ==
    [][(Called("store_memory") /\ ret'.ok) =>
           LET words == split(call'.content)
               expected == {lower(words[i]) :
                               i \in {j \in 1..Len(words) : Len(words[j]) >= 4}}
               links == {mc \in memory_concepts' : mc.memory_id = ret'.memory_id}
               linked == {c.concept : c \in {x \in concepts' :
                              \E mc \in links : mc.concept_id = x.id}}
           IN  /\ linked = expected
               /\ Cardinality(links) = Cardinality(expected)
               /\ \A mc \in links :
                      /\ mc.weight = 10
                      /\ \E c \in concepts' : c.id = mc.concept_id
      ]_vars

\* "Cats" has just been stored with its one link, to the concept "cats";
\* "a sun", stored before it, has no link.
C25_Witness ==
    /\ call.op = "store_memory"
    /\ call.content = Cats
    /\ ret.ok
    /\ \E c \in concepts :
           /\ c.concept = cats
           /\ LinksOf(ret.memory_id)
                  = {[memory_id |-> ret.memory_id, concept_id |-> c.id, weight |-> 10]}
    /\ \E other \in DOMAIN memories :
           memories[other].content = a_sun /\ LinksOf(other) = {}

(* C26. No operation removes or alters a concept row: across every step    *)
(* the set of (id, text) concept rows only grows, and every operation      *)
(* other than store_memory leaves it as it was, also when the last memory  *)
(* that referenced a concept is deleted.                                   *)

C26_ConceptRowsAreKept ==
    [][/\ concepts \subseteq concepts'
       /\ Called("store_memory") \/ concepts' = concepts
      ]_vars

\* A delete has just removed the last memory of the store; the concepts
\* its content was linked to are still there.
C26_Witness ==
    /\ call.op = "delete_memories_by_content"
    /\ ret.ok /\ ret.memory_ids # {}
    /\ memories = <<>>
    /\ \E c1, c2 \in concepts : c1.concept = cats /\ c2.concept = <<"d", "o", "g", "s">>

(* C27. get_memory_by_id on an existing memory adds exactly one to its     *)
(* stored access_count and sets its last_accessed to the time of the call, *)
(* while the record it returns carries the access_count and last_accessed  *)
(* from before the update; on an id that names no memory it returns None   *)
(* and changes nothing.                                                    *)

C27_LookupReturnsTheRowAsItWas ==
    [][Called("get_memory_by_id") =>
           LET id == call'.memory_id
           IN  IF id \in DOMAIN memories
               THEN /\ ret'.ok /\ IsSome(ret'.memory)
                    /\ Get(ret'.memory).id = id
                    /\ Get(ret'.memory).access_count = memories[id].access_count
                    /\ Get(ret'.memory).last_accessed = memories[id].last_accessed
                    /\ Get(ret'.memory).content = memories[id].content
                    /\ memories' =
                           [memories EXCEPT
                               ![id].access_count = memories[id].access_count + 1,
                               ![id].last_accessed = Some(now)]
                    /\ UNCHANGED <<concepts, memory_concepts>>
               ELSE /\ ret'.ok /\ ret'.memory = None
                    /\ UNCHANGED <<memories, concepts, memory_concepts>>
      ]_vars

\* A second lookup, later than the first, has just returned the record as
\* the first one left it, and the stored row has moved on.
C27_Witness ==
    /\ call.op = "get_memory_by_id"
    /\ ret.ok /\ IsSome(ret.memory)
    /\ Get(ret.memory).access_count = 1
    /\ Get(ret.memory).last_accessed = Some(0)
    /\ memories[call.memory_id].access_count = 2
    /\ memories[call.memory_id].last_accessed = Some(1)

(* C28. get_user_memory_stats is read-only: it leaves every memory (the    *)
(* access_count and last_accessed of the memory it reports as most         *)
(* accessed included), every concept and every link as it was.             *)

C28_StatsAreReadOnly ==
    [][Called("get_user_memory_stats") =>
           UNCHANGED <<memories, concepts, memory_concepts>>
      ]_vars

\* Statistics have just reported a memory that was accessed once; its
\* stored access_count is still 1.
C28_Witness ==
    /\ call.op = "get_user_memory_stats"
    /\ "stats" \in DOMAIN ret
    /\ IsSome(ret.stats.most_accessed_memory)
    /\ Get(ret.stats.most_accessed_memory).access_count = 1
    /\ memories[Get(ret.stats.most_accessed_memory).id].access_count = 1
    /\ memory_concepts # {}

(* C29. Under any interleaving of concurrent delete_memories_by_content    *)
(* calls with overlapping matches, each memory id is in the returned list  *)
(* of at most one call. Memory ids are never reused and a delete returns   *)
(* every id it removes, so this says: a delete that returns an id is the   *)
(* call that removed that memory, which was stored until its commit.       *)

C29_DeletedIdReportedOnce ==
    [][\A c \in Callers :
           delete_memories_by_content_commit(c) =>
               \A id \in ret'.memory_ids :
                   id \in DOMAIN memories /\ id \notin DOMAIN memories'
      ]_vars

(* C30. User isolation: what user A has stored is the same whether or not  *)
(* calls for another user B were made before. In particular no             *)
(* store_memory, retrieve_memories, delete_memories_by_content or          *)
(* get_user_memory_stats call made for B removes a memory of A or changes  *)
(* one of its fields.                                                      *)

C30_CallsForOneUserLeaveTheOthersAlone ==
    [][(\/ Called("store_memory") \/ Called("retrieve_memories")
        \/ Called("delete_memories_by_content")
        \/ Called("get_user_memory_stats")) =>
           \A id \in DOMAIN memories :
               memories[id].user_id # call'.user_id =>
                   id \in DOMAIN memories' /\ memories'[id] = memories[id]
      ]_vars

====
